---- MODULE Spec2Model ----
(***************************************************************************)
(* Model of src/source_dump/sourcedump.ts: the ignore-aware directory walk *)
(* (readGitignore, shouldIgnore, listFiles, generateTree) and the part of  *)
(* main that drives it.                                                    *)
(*                                                                         *)
(* Strings are sequences of one-character strings.  Paths are POSIX paths  *)
(* (separator "/").  Patterns are drawn from an alphabet in which the only *)
(* regular-expression metacharacters are "." and "*"; every other          *)
(* character of the alphabet is a literal for new RegExp(pattern).         *)
(***************************************************************************)
EXTENDS Integers, Sequences, FiniteSets, TLC

VARIABLES
  fs,               \* the directory tree under targetDir (a forest of entries)
  gitignore,        \* <targetDir>/.gitignore: [exists, content]
  excludePatterns,  \* main: the --exclude arguments
  targetExtensions, \* main: the --ext arguments, each with its leading "."
  pc,               \* position of main (or of the function under check)
  ignorePatterns,   \* main: gitignorePatterns.concat(excludePatterns)
  stack,            \* the suspended listFiles / generateTree calls, innermost last
  inflight,         \* filesystem operations issued and not yet settled
  ops,              \* history: every filesystem read issued, in issue order
  allFiles,         \* main: the resolved value of listFiles
  treeStructure,    \* main: the resolved value of generateTree
  out,              \* the chunks appended to outputFile, in order
  k,                \* main: index of the for-of loop over allFiles
  exitErr,          \* what main().catch received
  failures,         \* history: the operations that rejected, in order
  relPath,          \* shouldIgnore: the filePath argument
  ret               \* shouldIgnore: the returned value

vars == <<fs, gitignore, excludePatterns, targetExtensions, pc, ignorePatterns,
          stack, inflight, ops, allFiles, treeStructure, out, k, exitErr,
          failures, relPath, ret>>

\* ------------------------------------------------------------------------
\* Bounds

\* longest relative path handed to shouldIgnore when it is checked alone
MaxPathLen == 3
\* budget of a pattern list checked alone: the sum over its patterns of
\* (length + 1)
MaxPatternChars == 4
\* longest .gitignore content when readGitignore is checked alone
MaxContentLen == 4
\* most entries (files and directories) under targetDir
MaxEntries == 3

\* ------------------------------------------------------------------------
\* Strings

RECURSIVE Strs(_, _)
Strs(alphabet, n) ==
  IF n = 0 THEN {<<>>}
  ELSE LET shorter == Strs(alphabet, n - 1)
       IN  shorter \cup {Append(s, c) : s \in shorter, c \in alphabet}

\* String.prototype.startsWith
StartsWith(s, prefix) ==
  /\ Len(prefix) <= Len(s)
  /\ SubSeq(s, 1, Len(prefix)) = prefix

\* String.prototype.substring(1)
Substring1(s) == SubSeq(s, 2, Len(s))

\* ------------------------------------------------------------------------
\* new RegExp(pattern) and RegExp.prototype.test, for patterns over an
\* alphabet whose only metacharacters are "." and "*"

\* new RegExp(pattern) throws "Nothing to repeat" for a "*" that follows no
\* atom: at the start of the pattern or right after another "*".
RegExpCompile(pattern) ==
  [ok     |-> \A i \in 1..Len(pattern) :
                pattern[i] = "*" => (i > 1 /\ pattern[i - 1] # "*"),
   source |-> pattern]

\* "." matches any character but a line terminator; a literal matches itself
AtomMatches(atom, ch) ==
  IF atom = "." THEN ch \notin {"\n", "\r"} ELSE atom = ch

\* the backtracking matcher, from atom k of the pattern at position i of s
RECURSIVE MatchHere(_, _, _, _)
MatchHere(re, j, s, i) ==
  IF j > Len(re) THEN TRUE
  ELSE IF j + 1 <= Len(re) /\ re[j + 1] = "*"
       THEN \/ (i <= Len(s) /\ AtomMatches(re[j], s[i]) /\ MatchHere(re, j, s, i + 1))
            \/ MatchHere(re, j + 2, s, i)
       ELSE i <= Len(s) /\ AtomMatches(re[j], s[i]) /\ MatchHere(re, j + 1, s, i + 1)

\* regex.test(s) for a regex without flags: a match starting anywhere in s
RegexTest(regex, s) ==
  \E i \in 1..(Len(s) + 1) : MatchHere(regex.source, 1, s, i)

\* ------------------------------------------------------------------------
\* shouldIgnore

\* the catch branch of the try/catch: a pattern that does not compile
\* returns true here instead of false
TryRegexCatchTrue(pattern, filePath) ==
  LET regex == RegExpCompile(pattern)
  IN  IF regex.ok THEN RegexTest(regex, filePath) ELSE TRUE

\* try { return new RegExp(pattern).test(filePath) } catch (e) { return false }
TryRegex(pattern, filePath) ==
  LET regex == RegExpCompile(pattern)
  IN  IF regex.ok THEN RegexTest(regex, filePath) ELSE FALSE

\* the callback handed to ignorePatterns.some
PatternTest(filePath, pattern) ==
  IF filePath = pattern \/ StartsWith(filePath, pattern)
  THEN TRUE
  ELSE TryRegex(pattern, filePath)

\* Array.prototype.some: left to right, stopping at the first true
RECURSIVE SomeFrom(_, _, _)
SomeFrom(filePath, patterns, i) ==
  IF i > Len(patterns) THEN FALSE
  ELSE IF PatternTest(filePath, patterns[i]) THEN TRUE
  ELSE SomeFrom(filePath, patterns, i + 1)

shouldIgnore(filePath, patterns) == SomeFrom(filePath, patterns, 1)

\* ------------------------------------------------------------------------
\* readGitignore

\* content.split(/\r?\n/): the pieces between the separators "\n" and "\r\n"
RECURSIVE SplitFrom(_, _, _)
SplitFrom(s, i, cur) ==
  IF i > Len(s) THEN <<cur>>
  ELSE IF s[i] = "\n" THEN <<cur>> \o SplitFrom(s, i + 1, <<>>)
  ELSE IF s[i] = "\r" /\ i + 1 <= Len(s) /\ s[i + 1] = "\n"
       THEN <<cur>> \o SplitFrom(s, i + 2, <<>>)
  ELSE SplitFrom(s, i + 1, Append(cur, s[i]))

SplitLines(content) == SplitFrom(content, 1, <<>>)

\* .filter(line => line && !line.startsWith('#'))
RECURSIVE FilterLines(_)
FilterLines(lines) ==
  IF lines = <<>> THEN <<>>
  ELSE LET line == Head(lines)
       IN  IF line # <<>> /\ ~StartsWith(line, <<"#">>)
           THEN <<line>> \o FilterLines(Tail(lines))
           ELSE FilterLines(Tail(lines))

\* a map callback that strips every leading "/" instead of one
RECURSIVE StripAllSlashes(_)
StripAllSlashes(line) ==
  IF StartsWith(line, <<"/">>) THEN StripAllSlashes(Substring1(line)) ELSE line

\* line => line.startsWith('/') ? line.substring(1) : line
StripSlash(line) ==
  IF StartsWith(line, <<"/">>) THEN Substring1(line) ELSE line

\* .map(...)
RECURSIVE MapLines(_)
MapLines(lines) ==
  IF lines = <<>> THEN <<>>
  ELSE <<StripSlash(Head(lines))>> \o MapLines(Tail(lines))

\* readGitignore(targetDir), given the file at path.join(targetDir, '.gitignore')
readGitignore(file) ==
  IF file.exists
  THEN MapLines(FilterLines(SplitLines(file.content)))
  ELSE <<>>

\* ------------------------------------------------------------------------
\* The file system under targetDir

\* the --target argument
targetDir == <<"/", "r">>

\* base names of the entries under targetDir; <<".", "a">> is hidden
Names == {<<"a">>, <<"b", ".", "A">>, <<".", "a">>}

\* base name of the ignore file, itself an entry of targetDir
GitignoreName == <<".", "g", "i", "t", "i", "g", "n", "o", "r", "e">>

\* deepest nesting of entries below targetDir
MaxDepth == 3

RECURSIVE ForestSize(_)
ForestSize(forest) ==
  IF forest = <<>> THEN 0
  ELSE 1 + ForestSize(Head(forest).children) + ForestSize(Tail(forest))

EntryNames(forest) == {forest[i].name : i \in 1..Len(forest)}

\* the directory contents with at most n entries in all, nested at most d
\* deep: a sequence (the directory-read order) of entries with distinct names
RECURSIVE Forests(_, _)
Forests(n, d) ==
  IF n = 0 \/ d = 0 THEN {<<>>}
  ELSE {<<>>} \cup UNION {
         LET below == IF isDir THEN Forests(n - 1, d - 1) ELSE {<<>>}
         IN  UNION {
               {<<[name |-> nm, isDir |-> isDir, children |-> ch]>> \o rest :
                  rest \in {r \in Forests(n - 1 - ForestSize(ch), d) :
                              nm \notin EntryNames(r)}} :
               ch \in below} :
         nm \in Names, isDir \in BOOLEAN}

\* path.join(dir, file) for a dir without trailing separator and a base name
PathJoin(dir, file) == dir \o <<"/">> \o file

\* path.relative(baseDir, filePath) for a filePath at or below baseDir
PathRelative(baseDir, filePath) ==
  IF filePath = baseDir THEN <<>>
  ELSE SubSeq(filePath, Len(baseDir) + 2, Len(filePath))

\* the base names along a relative path
RECURSIVE ComponentsFrom(_, _, _)
ComponentsFrom(s, i, cur) ==
  IF i > Len(s) THEN (IF cur = <<>> THEN <<>> ELSE <<cur>>)
  ELSE IF s[i] = "/" THEN <<cur>> \o ComponentsFrom(s, i + 1, <<>>)
  ELSE ComponentsFrom(s, i + 1, Append(cur, s[i]))

Components(rel) == ComponentsFrom(rel, 1, <<>>)

EntryNamed(forest, nm) ==
  forest[CHOOSE i \in 1..Len(forest) : forest[i].name = nm]

\* the entry of the tree that an absolute path below targetDir names
RECURSIVE EntryAt(_, _)
EntryAt(forest, comps) ==
  LET e == EntryNamed(forest, Head(comps))
  IN  IF Len(comps) = 1 THEN e ELSE EntryAt(e.children, Tail(comps))

\* fs.readdir(dir): the base names of the directory's entries, in
\* directory-read order
readdir(tree, file, dir) ==
  IF dir = targetDir
  THEN [i \in 1..Len(tree) |-> tree[i].name]
         \o (IF file.exists THEN <<GitignoreName>> ELSE <<>>)
  ELSE LET ch == EntryAt(tree, Components(PathRelative(targetDir, dir))).children
       IN  [i \in 1..Len(ch) |-> ch[i].name]

\* fs.stat(filePath).isDirectory()
statIsDirectory(tree, filePath) ==
  EntryAt(tree, Components(PathRelative(targetDir, filePath))).isDir

\* fs.readFile(filePath, 'utf-8'): opaque text
readFile(filePath) == <<"<content>">>

\* ------------------------------------------------------------------------
\* listFiles and generateTree: the calls suspended at an await are frames
\* [fn, dir, depth, list, i, acc]; list is the resolved readdir, i the index
\* of the entry whose stat is awaited, acc the results array (listFiles) or
\* the tree string (generateTree)

Frame(fn, dir, depth) ==
  [fn |-> fn, dir |-> dir, depth |-> depth, list |-> <<>>, i |-> 0, acc |-> <<>>]

ReadOp(fn, op, path) == [fn |-> fn, op |-> op, path |-> path]

\* how a run of synchronous code ends: suspended at an await with one
\* operation issued, returned to main with a value, or thrown to main
Suspended(st, o) ==
  [stack |-> st, issue |-> {o}, returned |-> FALSE, value |-> <<>>, threw |-> FALSE]
Returned(v) ==
  [stack |-> <<>>, issue |-> {}, returned |-> TRUE, value |-> v, threw |-> FALSE]
Thrown ==
  [stack |-> <<>>, issue |-> {}, returned |-> FALSE, value |-> <<>>, threw |-> TRUE]

\* a loop head that skips hidden entries only
SkippedHiddenOnly(file, relativePath, patterns) ==
  StartsWith(file, <<".">>)

\* a loop head that applies the ignore patterns only
SkippedIgnoredOnly(file, relativePath, patterns) ==
  shouldIgnore(relativePath, patterns)

\* a loop head that matches the patterns against the base name
SkippedByBaseName(file, relativePath, patterns) ==
  \/ StartsWith(file, <<".">>)
  \/ shouldIgnore(file, patterns)

\* the two `continue` tests at the head of the for-of loop
Skipped(file, relativePath, patterns) ==
  \/ StartsWith(file, <<".">>)
  \/ shouldIgnore(relativePath, patterns)

RECURSIVE Repeat(_, _)
Repeat(s, n) == IF n = 0 THEN <<>> ELSE s \o Repeat(s, n - 1)

\* a tree line indented by one space per level
TreeLineOneSpace(depth, file) ==
  Repeat(<<" ">>, depth) \o <<"-", " ">> \o file \o <<"\n">>

\* `${'  '.repeat(depth)}- ${file}\n`
TreeLine(depth, file) ==
  Repeat(<<" ", " ">>, depth) \o <<"-", " ">> \o file \o <<"\n">>

\* the call of listFiles / generateTree up to its first await
Call(fn, dir, depth, st) ==
  Suspended(Append(st, Frame(fn, dir, depth)), ReadOp(fn, "readdir", dir))

\* the for-of loop of the innermost call from entry i on, up to the next
\* await; a call that runs off its list returns acc to its caller, which
\* concatenates it and goes on with its own loop
RECURSIVE Loop(_, _, _, _)
Loop(st, i, baseDir, patterns) ==
  LET n == Len(st)
      f == st[n]
  IN  IF i > Len(f.list)
      THEN IF n = 1 THEN Returned(f.acc)
           ELSE LET c == st[n - 1]
                    st2 == [SubSeq(st, 1, n - 1) EXCEPT ![n - 1].acc = c.acc \o f.acc]
                IN  Loop(st2, c.i + 1, baseDir, patterns)
      ELSE LET file == f.list[i]
               filePath == PathJoin(f.dir, file)
               relativePath == PathRelative(baseDir, filePath)
           IN  IF Skipped(file, relativePath, patterns)
               THEN Loop(st, i + 1, baseDir, patterns)
               ELSE Suspended([st EXCEPT ![n].i = i], ReadOp(f.fn, "stat", filePath))

\* the innermost call resumes with the resolved readdir
AfterReaddir(st, list, baseDir, patterns) ==
  Loop([st EXCEPT ![Len(st)].list = list], 1, baseDir, patterns)

\* a listFiles that pushes the relative path of a directory as well
AfterStatListsDirectories(st, isDirectory, baseDir, patterns) ==
  LET n == Len(st)
      f == st[n]
      file == f.list[f.i]
      filePath == PathJoin(f.dir, file)
      relativePath == PathRelative(baseDir, filePath)
  IN  IF f.fn = "listFiles"
      THEN LET st1 == [st EXCEPT ![n].acc = Append(f.acc, relativePath)]
           IN  IF isDirectory
               THEN Call("listFiles", filePath, 0, st1)
               ELSE Loop(st1, f.i + 1, baseDir, patterns)
      ELSE LET st1 == [st EXCEPT ![n].acc = f.acc \o TreeLine(f.depth, file)]
           IN  IF isDirectory
               THEN Call("generateTree", filePath, f.depth + 1, st1)
               ELSE Loop(st1, f.i + 1, baseDir, patterns)

\* the innermost call resumes with the resolved stat of entry i
AfterStat(st, isDirectory, baseDir, patterns) ==
  LET n == Len(st)
      f == st[n]
      file == f.list[f.i]
      filePath == PathJoin(f.dir, file)
      relativePath == PathRelative(baseDir, filePath)
  IN  IF f.fn = "listFiles"
      THEN IF isDirectory
           THEN Call("listFiles", filePath, 0, st)
           ELSE Loop([st EXCEPT ![n].acc = Append(f.acc, relativePath)],
                     f.i + 1, baseDir, patterns)
      ELSE LET st1 == [st EXCEPT ![n].acc = f.acc \o TreeLine(f.depth, file)]
           IN  IF isDirectory
               THEN Call("generateTree", filePath, f.depth + 1, st1)
               ELSE Loop(st1, f.i + 1, baseDir, patterns)

\* a walk that catches a failed stat and goes on with the next entry
RejectedSkipsEntry(st, o, baseDir, patterns) ==
  IF o.op = "stat" /\ st # <<>>
  THEN Loop(st, st[Len(st)].i + 1, baseDir, patterns)
  ELSE Thrown

\* an awaited operation rejects: no frame has a try/catch, so the error
\* unwinds every suspended call and reaches main().catch
Rejected(st, o, baseDir, patterns) == Thrown

\* an operation that settles without leaving the in-flight set
ResumeKeeps(ongoing, o) == ongoing

\* the awaited operation settles
Resume(ongoing, o) == ongoing \ {o}

\* ------------------------------------------------------------------------
\* isTargetFile

\* String.prototype.toLowerCase over the alphabet of Names
ToLowerCase(s) == [i \in 1..Len(s) |-> IF s[i] = "A" THEN "a" ELSE s[i]]

LastIndexOf(s, ch) ==
  IF \E i \in 1..Len(s) : s[i] = ch
  THEN CHOOSE i \in 1..Len(s) : s[i] = ch /\ \A j \in (i + 1)..Len(s) : s[j] # ch
  ELSE 0

\* path.extname: from the last "." of the base name on; empty when the
\* base name has no "." or only a leading one
Extname(filePath) ==
  LET base == SubSeq(filePath, LastIndexOf(filePath, "/") + 1, Len(filePath))
      dot == LastIndexOf(base, ".")
  IN  IF dot <= 1 THEN <<>> ELSE SubSeq(base, dot, Len(base))

isTargetFile(filePath, extensions) ==
  \E i \in 1..Len(extensions) : extensions[i] = ToLowerCase(Extname(filePath))

\* the first index from k on of a file the dump loop does not `continue` over
NextTarget(files, from, extensions) ==
  LET hits == {j \in from..Len(files) :
                 isTargetFile(PathJoin(targetDir, files[j]), extensions)}
  IN  IF hits = {} THEN 0 ELSE CHOOSE j \in hits : \A h \in hits : j <= h

\* ------------------------------------------------------------------------
\* main, from the construction of the pattern list on

\* the runs: the .gitignore file (absent; a comment only; an anchored line,
\* a comment and both line breaks; a directory prefix; a lone "/") with the
\* --exclude and --ext arguments
NoGitignore == [exists |-> FALSE, content |-> <<>>]
Gitignore(content) == [exists |-> TRUE, content |-> content]
Run(file, exclude, ext) == [gitignore |-> file, exclude |-> exclude, ext |-> ext]
Runs ==
  { Run(NoGitignore, <<>>, <<>>),
    Run(NoGitignore, << <<"*", "A">>, <<"b">> >>, << <<".", "a">> >>),
    Run(Gitignore(<<"#", "a">>), <<>>, << <<".", "a">> >>),
    Run(Gitignore(<<"/", "a", "\r", "\n", "#", "b", "\n">>), <<>>, << <<".", "a">> >>),
    Run(Gitignore(<<"a", "/">>), << <<"*", "A">> >>, <<>>),
    Run(Gitignore(<<"/">>), <<>>, <<>>) }

\* the three backquotes of a code fence (a TLA+ string cannot hold them)
Fence == "FENCE"

SetToSeq(S) == IF S = {} THEN <<>> ELSE <<CHOOSE x \in S : TRUE>>

Init ==
  /\ fs \in Forests(MaxEntries, MaxDepth)
  /\ \E r \in Runs :
       /\ gitignore = r.gitignore
       /\ excludePatterns = r.exclude
       /\ targetExtensions = r.ext
  /\ pc = "start"
  /\ ignorePatterns = <<>>
  /\ stack = <<>>
  /\ inflight = {}
  /\ ops = <<>>
  /\ allFiles = <<>>
  /\ treeStructure = <<>>
  /\ out = <<>>
  /\ k = 0
  /\ exitErr = <<>>
  /\ failures = <<>>
  /\ relPath = <<>>
  /\ ret = FALSE

\* lines 123-126: build the pattern list, then writeFile(outputFile, '')
Start ==
  /\ pc = "start"
  /\ ignorePatterns' = readGitignore(gitignore) \o excludePatterns
  /\ out' = <<>>
  /\ pc' = "findHeader"
  /\ UNCHANGED <<fs, gitignore, excludePatterns, targetExtensions, stack, inflight,
                 ops, allFiles, treeStructure, k, exitErr, failures, relPath, ret>>

\* what the settling of operation o, continued by r, does to the walk and
\* to main
Settle(o, r) ==
  /\ stack' = r.stack
  /\ inflight' = Resume(inflight, o) \cup r.issue
  /\ ops' = ops \o SetToSeq(r.issue)
  /\ IF r.threw
     THEN /\ pc' = "exit1"
          /\ exitErr' = <<o>>
          /\ UNCHANGED <<allFiles, treeStructure, k>>
     ELSE /\ UNCHANGED exitErr
          /\ IF r.returned /\ pc = "listFiles"
             THEN /\ allFiles' = r.value
                  /\ pc' = "emitList"
                  /\ k' = 1
                  /\ UNCHANGED treeStructure
             ELSE IF r.returned /\ pc = "generateTree"
             THEN /\ treeStructure' = r.value
                  /\ pc' = "emitTree"
                  /\ UNCHANGED <<allFiles, k>>
             ELSE UNCHANGED <<pc, allFiles, treeStructure, k>>
  /\ UNCHANGED <<fs, gitignore, excludePatterns, targetExtensions, ignorePatterns,
                 out, relPath, ret>>

\* line 128-129: append the first header, call listFiles
AppendFindHeader ==
  /\ pc = "findHeader"
  /\ out' = out \o <<"## Find Output\n">>
  /\ pc' = "listFiles"
  /\ LET r == Call("listFiles", targetDir, 0, <<>>)
     IN  /\ stack' = r.stack
         /\ inflight' = inflight \cup r.issue
         /\ ops' = ops \o SetToSeq(r.issue)
  /\ UNCHANGED <<fs, gitignore, excludePatterns, targetExtensions, ignorePatterns,
                 allFiles, treeStructure, k, exitErr, failures, relPath, ret>>

\* lines 45 and 67: the awaited readdir resolves
ReaddirDone ==
  \E o \in inflight :
    /\ o.op = "readdir"
    /\ Settle(o, AfterReaddir(stack, readdir(fs, gitignore, o.path),
                              targetDir, ignorePatterns))
    /\ UNCHANGED failures

\* lines 55 and 77: the awaited stat resolves
StatDone ==
  \E o \in inflight :
    /\ o.op = "stat"
    /\ Settle(o, AfterStat(stack, statIsDirectory(fs, o.path),
                           targetDir, ignorePatterns))
    /\ UNCHANGED failures

\* an awaited readdir, stat or readFile rejects
OpFails ==
  \E o \in inflight :
    /\ failures' = Append(failures, o)
    /\ Settle(o, Rejected(stack, o, targetDir, ignorePatterns))

\* lines 130-132: one appendFile of the listing loop
AppendListed ==
  /\ pc = "emitList"
  /\ k <= Len(allFiles)
  /\ out' = out \o allFiles[k] \o <<"\n">>
  /\ k' = k + 1
  /\ UNCHANGED <<fs, gitignore, excludePatterns, targetExtensions, pc, ignorePatterns,
                 stack, inflight, ops, allFiles, treeStructure, exitErr, failures,
                 relPath, ret>>

\* lines 134-135: append the second header, call generateTree
AppendTreeHeader ==
  /\ pc = "emitList"
  /\ k > Len(allFiles)
  /\ out' = out \o <<"\n## Directory Tree\n">>
  /\ pc' = "generateTree"
  /\ LET r == Call("generateTree", targetDir, 0, <<>>)
     IN  /\ stack' = r.stack
         /\ inflight' = inflight \cup r.issue
         /\ ops' = ops \o SetToSeq(r.issue)
  /\ UNCHANGED <<fs, gitignore, excludePatterns, targetExtensions, ignorePatterns,
                 allFiles, treeStructure, k, exitErr, failures, relPath, ret>>

\* line 136: append the tree
AppendTree ==
  /\ pc = "emitTree"
  /\ out' = out \o treeStructure
  /\ pc' = "sourceHeader"
  /\ UNCHANGED <<fs, gitignore, excludePatterns, targetExtensions, ignorePatterns,
                 stack, inflight, ops, allFiles, treeStructure, k, exitErr, failures,
                 relPath, ret>>

\* line 138: append the third header and enter the dump loop
AppendSourceHeader ==
  /\ pc = "sourceHeader"
  /\ out' = out \o <<"\n## Source Code\n">>
  /\ pc' = "dump"
  /\ k' = 1
  /\ UNCHANGED <<fs, gitignore, excludePatterns, targetExtensions, ignorePatterns,
                 stack, inflight, ops, allFiles, treeStructure, exitErr, failures,
                 relPath, ret>>

\* lines 140-148: skip the files of other extensions, append the fence of
\* the next target file and read it
AppendFence ==
  /\ pc = "dump"
  /\ LET j == NextTarget(allFiles, k, targetExtensions)
     IN  /\ j # 0
         /\ k' = j
         /\ out' = out \o <<Fence, "file:">> \o allFiles[j] \o <<"\n">>
         /\ inflight' = inflight
              \cup {ReadOp("main", "readFile", PathJoin(targetDir, allFiles[j]))}
         /\ ops' = Append(ops, ReadOp("main", "readFile", PathJoin(targetDir, allFiles[j])))
  /\ pc' = "readFile"
  /\ UNCHANGED <<fs, gitignore, excludePatterns, targetExtensions, ignorePatterns,
                 stack, allFiles, treeStructure, exitErr, failures, relPath, ret>>

\* lines 148-150: the awaited readFile resolves, append the content
AppendContent ==
  /\ pc = "readFile"
  /\ \E o \in inflight :
       /\ o.op = "readFile"
       /\ inflight' = Resume(inflight, o)
       /\ out' = out \o readFile(o.path) \o <<"\n", Fence, "\n\n">>
  /\ k' = k + 1
  /\ pc' = "dump"
  /\ UNCHANGED <<fs, gitignore, excludePatterns, targetExtensions, ignorePatterns,
                 stack, ops, allFiles, treeStructure, exitErr, failures, relPath, ret>>

\* lines 140-152: no target file is left, main resolves
Finish ==
  /\ pc = "dump"
  /\ NextTarget(allFiles, k, targetExtensions) = 0
  /\ pc' = "done"
  /\ k' = Len(allFiles) + 1
  /\ UNCHANGED <<fs, gitignore, excludePatterns, targetExtensions, ignorePatterns,
                 stack, inflight, ops, allFiles, treeStructure, out, exitErr, failures,
                 relPath, ret>>

Next ==
  \/ Start
  \/ AppendFindHeader
  \/ ReaddirDone
  \/ StatDone
  \/ OpFails
  \/ AppendListed
  \/ AppendTreeHeader
  \/ AppendTree
  \/ AppendSourceHeader
  \/ AppendFence
  \/ AppendContent
  \/ Finish

Spec == Init /\ [][Next]_vars

\* ------------------------------------------------------------------------
\* shouldIgnore checked alone: any path and any pattern list over an
\* alphabet with a literal, a separator and the two metacharacters

MatchAlphabet == {"a", "/", ".", "*"}

\* the pattern lists whose patterns cost (length + 1) each, within a budget
RECURSIVE PatternLists(_)
PatternLists(budget) ==
  IF budget = 0 THEN {<<>>}
  ELSE {<<>>} \cup UNION {
         {<<p>> \o rest : rest \in PatternLists(budget - 1 - Len(p))} :
         p \in Strs(MatchAlphabet, budget - 1)}

InitMatch ==
  /\ relPath \in Strs(MatchAlphabet, MaxPathLen)
  /\ ignorePatterns \in PatternLists(MaxPatternChars)
  /\ pc = "call"
  /\ ret = FALSE
  /\ fs = <<>>
  /\ gitignore = NoGitignore
  /\ excludePatterns = <<>>
  /\ targetExtensions = <<>>
  /\ stack = <<>>
  /\ inflight = {}
  /\ ops = <<>>
  /\ allFiles = <<>>
  /\ treeStructure = <<>>
  /\ out = <<>>
  /\ k = 0
  /\ exitErr = <<>>
  /\ failures = <<>>

\* lines 28-41: one call of shouldIgnore
CallShouldIgnore ==
  /\ pc = "call"
  /\ ret' = shouldIgnore(relPath, ignorePatterns)
  /\ pc' = "returned"
  /\ UNCHANGED <<fs, gitignore, excludePatterns, targetExtensions, ignorePatterns,
                 stack, inflight, ops, allFiles, treeStructure, out, k, exitErr,
                 failures, relPath>>

NextMatch == CallShouldIgnore

SpecMatch == InitMatch /\ [][NextMatch]_vars

\* ------------------------------------------------------------------------
\* The construction of the pattern list checked alone: any .gitignore
\* content over an alphabet with a literal, "/", "#" and the line breaks

ContentAlphabet == {"a", "/", "#", "\n", "\r"}

InitGitignore ==
  /\ gitignore \in
       {NoGitignore} \cup {Gitignore(c) : c \in Strs(ContentAlphabet, MaxContentLen)}
  /\ excludePatterns \in { <<>>, << <<"/", "a">>, <<>> >> }
  /\ targetExtensions = <<>>
  /\ fs = <<>>
  /\ pc = "start"
  /\ ignorePatterns = <<>>
  /\ stack = <<>>
  /\ inflight = {}
  /\ ops = <<>>
  /\ allFiles = <<>>
  /\ treeStructure = <<>>
  /\ out = <<>>
  /\ k = 0
  /\ exitErr = <<>>
  /\ failures = <<>>
  /\ relPath = <<>>
  /\ ret = FALSE

NextGitignore == Start

SpecGitignore == InitGitignore /\ [][NextGitignore]_vars

\* ------------------------------------------------------------------------
\* What the specification says a pattern list matches, stated without the
\* matcher: by the language of each pattern

\* a pattern is a valid regular expression iff every "*" follows an atom
ValidRegex(p) ==
  \A i \in 1..Len(p) : p[i] = "*" => (i > 1 /\ p[i - 1] # "*")

\* w is in the language of the atoms of p from atom j on
RECURSIVE InLanguage(_, _, _)
InLanguage(p, j, w) ==
  IF j > Len(p) THEN w = <<>>
  ELSE IF j + 1 <= Len(p) /\ p[j + 1] = "*"
       THEN \E n \in 0..Len(w) :
              /\ \A h \in 1..n : AtomMatches(p[j], w[h])
              /\ InLanguage(p, j + 2, SubSeq(w, n + 1, Len(w)))
       ELSE /\ w # <<>>
            /\ AtomMatches(p[j], w[1])
            /\ InLanguage(p, j + 1, Tail(w))

Substrings(s) ==
  {SubSeq(s, a, b) : a \in 1..(Len(s) + 1), b \in 0..Len(s)}

IsLiteralPrefix(p, path) == \E n \in 0..Len(path) : SubSeq(path, 1, n) = p

SpecMatches(path, patterns) ==
  \E i \in 1..Len(patterns) :
    LET p == patterns[i]
    IN  \/ p = path
        \/ IsLiteralPrefix(p, path)
        \/ (ValidRegex(p) /\ \E w \in Substrings(path) : InLanguage(p, 1, w))

\* C1: shouldIgnore(P, S) returns true exactly when some pattern of S equals
\* P, is a literal prefix of P, or is a valid regular expression matching a
\* substring of P; a pattern that does not compile yields a boolean like any
\* other and still matches as an exact or prefix pattern.
C1_ShouldIgnoreIffSomePatternMatches ==
  pc = "returned" =>
    /\ ret \in BOOLEAN
    /\ ret = SpecMatches(relPath, ignorePatterns)

\* C1 witness: a list whose only pattern does not compile has matched a
\* longer path by the prefix rule
C1_Witness ==
  /\ pc = "returned"
  /\ ret = TRUE
  /\ Len(ignorePatterns) = 1
  /\ ~ValidRegex(ignorePatterns[1])
  /\ ignorePatterns[1] # <<>>
  /\ Len(relPath) > Len(ignorePatterns[1])

\* ------------------------------------------------------------------------
\* The pattern list of a traversal

\* the patterns the ignore file contributes: the list without the
\* caller-supplied patterns that follow
GitignorePart == SubSeq(ignorePatterns, 1, Len(ignorePatterns) - Len(excludePatterns))

KeptLines(content) ==
  SelectSeq(SplitLines(content), LAMBDA l : l # <<>> /\ l[1] # "#")

\* C7: without the ignore file the list is the caller's patterns; with it,
\* the list is one pattern per line that is neither empty nor a "#" line, in
\* file order, each the line without one leading "/", followed by the
\* caller's patterns in order and unchanged; a path below a pattern that
\* came from a "/"-anchored line is excluded.
C7_PatternListConstruction ==
  pc = "findHeader" =>
    IF ~gitignore.exists
    THEN ignorePatterns = excludePatterns
    ELSE LET lines == SplitLines(gitignore.content)
             kept == KeptLines(gitignore.content)
         IN  /\ \A i \in 1..Len(lines) : \A j \in 1..Len(lines[i]) : lines[i][j] # "\n"
             /\ Len(lines) = 1 + Cardinality({j \in 1..Len(gitignore.content) :
                                                gitignore.content[j] = "\n"})
             /\ Len(ignorePatterns) = Len(kept) + Len(excludePatterns)
             /\ \A i \in 1..Len(kept) :
                  /\ ignorePatterns[i] = (IF kept[i][1] = "/" THEN Tail(kept[i]) ELSE kept[i])
                  /\ kept[i][1] = "/" =>
                       shouldIgnore(Tail(kept[i]) \o <<"/", "a">>, ignorePatterns)
             /\ \A i \in 1..Len(excludePatterns) :
                  ignorePatterns[Len(kept) + i] = excludePatterns[i]

\* C7 witness: an ignore file with a "#" line and a line of two leading "/",
\* and caller-supplied patterns after its patterns
C7_Witness ==
  /\ pc = "findHeader"
  /\ gitignore.exists
  /\ excludePatterns # <<>>
  /\ Len(SplitLines(gitignore.content)) > Len(KeptLines(gitignore.content))
  /\ \E i \in 1..Len(GitignorePart) : StartsWith(GitignorePart[i], <<"/">>)

\* C10: every pattern the ignore file contributes is a non-empty string
C10_GitignorePatternsNonEmpty ==
  pc = "findHeader" => \A i \in 1..Len(GitignorePart) : GitignorePart[i] # <<>>

\* ------------------------------------------------------------------------
\* What the specification says a traversal yields, stated on the tree

RECURSIVE PiecesFrom(_, _, _, _)
PiecesFrom(s, sep, i, cur) ==
  IF i > Len(s) THEN <<cur>>
  ELSE IF s[i] = sep THEN <<cur>> \o PiecesFrom(s, sep, i + 1, <<>>)
  ELSE PiecesFrom(s, sep, i + 1, Append(cur, s[i]))

\* the non-empty pieces of s between separators
Pieces(s, sep) == SelectSeq(PiecesFrom(s, sep, 1, <<>>), LAMBDA x : x # <<>>)

RECURSIVE JoinPieces(_, _)
JoinPieces(ps, sep) ==
  IF ps = <<>> THEN <<>>
  ELSE IF Len(ps) = 1 THEN ps[1]
  ELSE ps[1] \o <<sep>> \o JoinPieces(Tail(ps), sep)

\* a relative path and those of the directories above it, below the root
AncestorsOrSelf(rel) ==
  LET cs == Pieces(rel, "/")
  IN  {JoinPieces(SubSeq(cs, 1, n), "/") : n \in 1..Len(cs)}

HasHiddenComponent(rel) ==
  LET cs == Pieces(rel, "/") IN \E i \in 1..Len(cs) : cs[i][1] = "."

IgnoredOrBelowIgnored(rel, patterns) ==
  \E q \in AncestorsOrSelf(rel) : SpecMatches(q, patterns)

Survives(e, rel, patterns) == e.name[1] # "." /\ ~SpecMatches(rel, patterns)

RelJoin(prefix, name) == IF prefix = <<>> THEN name ELSE prefix \o <<"/">> \o name

\* the files that survive, depth first in directory-read order
RECURSIVE RefListing(_, _, _)
RefListing(forest, prefix, patterns) ==
  IF forest = <<>> THEN <<>>
  ELSE LET e == Head(forest)
           rel == RelJoin(prefix, e.name)
           here == IF ~Survives(e, rel, patterns) THEN <<>>
                   ELSE IF e.isDir THEN RefListing(e.children, rel, patterns)
                   ELSE <<rel>>
       IN  here \o RefListing(Tail(forest), prefix, patterns)

\* one line per surviving entry, a directory's line right before the lines
\* of what survives in it
RECURSIVE RefTree(_, _, _, _)
RefTree(forest, prefix, depth, patterns) ==
  IF forest = <<>> THEN <<>>
  ELSE LET e == Head(forest)
           rel == RelJoin(prefix, e.name)
           indent == [i \in 1..(2 * depth) |-> " "]
           here == IF ~Survives(e, rel, patterns) THEN <<>>
                   ELSE indent \o <<"-", " ">> \o e.name \o <<"\n">>
                          \o RefTree(e.children, rel, depth + 1, patterns)
       IN  here \o RefTree(Tail(forest), prefix, depth, patterns)

RECURSIVE ListingText(_)
ListingText(paths) ==
  IF paths = <<>> THEN <<>> ELSE Head(paths) \o <<"\n">> \o ListingText(Tail(paths))

\* the lines of a rendering, each as its indent level and its base name
LeadingSpaces(line) ==
  CHOOSE n \in 0..Len(line) :
    /\ \A i \in 1..n : line[i] = " "
    /\ n = Len(line) \/ line[n + 1] # " "

ParsedLines(tree) ==
  LET ls == Pieces(tree, "\n")
  IN  [i \in 1..Len(ls) |->
         [depth |-> LeadingSpaces(ls[i]) \div 2,
          name  |-> SubSeq(ls[i], LeadingSpaces(ls[i]) + 3, Len(ls[i]))]]

\* the relative path a line stands for: its name below the path of the
\* nearest line above it that is one level up
RECURSIVE LinePath(_, _)
LinePath(pl, i) ==
  IF pl[i].depth = 0 THEN pl[i].name
  ELSE LET parent == CHOOSE j \in 1..(i - 1) :
                       /\ pl[j].depth = pl[i].depth - 1
                       /\ \A h \in (j + 1)..(i - 1) : pl[h].depth >= pl[i].depth
       IN  LinePath(pl, parent) \o <<"/">> \o pl[i].name

IsLeafLine(pl, i) == i = Len(pl) \/ pl[i + 1].depth <= pl[i].depth

LinePaths(tree) ==
  LET pl == ParsedLines(tree) IN {LinePath(pl, i) : i \in 1..Len(pl)}

LeafPaths(tree) ==
  LET pl == ParsedLines(tree)
  IN  {LinePath(pl, i) : i \in {h \in 1..Len(pl) : IsLeafLine(pl, h)}}

SeqRange(q) == {q[i] : i \in 1..Len(q)}

PostList ==
  pc \in {"emitList", "generateTree", "emitTree", "sourceHeader", "dump", "readFile", "done"}
PostTree == pc \in {"emitTree", "sourceHeader", "dump", "readFile", "done"}

\* a directory of the tree in which nothing survives
IsBareDirectory(rel) ==
  LET e == EntryAt(fs, Pieces(rel, "/"))
  IN  /\ e.isDir
      /\ \A i \in 1..Len(e.children) :
           ~Survives(e.children[i], RelJoin(rel, e.children[i].name), ignorePatterns)

NeitherOutputHoldsExcluded ==
  \A p \in SeqRange(allFiles) \cup LinePaths(treeStructure) :
    ~HasHiddenComponent(p) /\ ~IgnoredOrBelowIgnored(p, ignorePatterns)

\* C2 as stated: the listed paths and the leaf lines of the rendering are
\* the same paths, and no hidden or ignore-matched entry is in either.
C2_ListingEqualsTreeLeaves ==
  PostTree =>
    /\ SeqRange(allFiles) = LeafPaths(treeStructure)
    /\ NeitherOutputHoldsExcluded

\* C2 amended: every listed path is a leaf line of the rendering; every leaf
\* line is a listed path or a directory in which no entry survives; no
\* hidden or ignore-matched entry is in either output.
C2_ListingVsTreeLeaves ==
  PostTree =>
    /\ SeqRange(allFiles) \subseteq LeafPaths(treeStructure)
    /\ \A p \in LeafPaths(treeStructure) :
         p \in SeqRange(allFiles) \/ IsBareDirectory(p)
    /\ NeitherOutputHoldsExcluded

\* C2 witness: both outputs are there, a file is listed and a leaf line
\* stands for a directory in which nothing survives
C2_Witness ==
  /\ PostTree
  /\ allFiles # <<>>
  /\ \E p \in LeafPaths(treeStructure) : p \notin SeqRange(allFiles)

\* ------------------------------------------------------------------------
\* Hidden entries

RelOf(o) == PathRelative(targetDir, o.path)

WalkOps == {i \in 1..Len(ops) : ops[i].fn \in {"listFiles", "generateTree"}}

\* the tree holds a hidden directory with something in it
HasHiddenDirectory(forest) ==
  \E i \in 1..Len(forest) :
    forest[i].name[1] = "." /\ forest[i].isDir /\ forest[i].children # <<>>

\* C3: an entry whose base name starts with "." is never listed, never
\* rendered and never read or queried, and neither is anything below it,
\* whatever the pattern list.
C3_HiddenEntriesSkipped ==
  /\ \A i \in WalkOps : ~HasHiddenComponent(RelOf(ops[i]))
  /\ \A p \in SeqRange(allFiles) : ~HasHiddenComponent(p)
  /\ \A p \in LinePaths(treeStructure) : ~HasHiddenComponent(p)
  /\ \A i \in 1..Len(stack) :
       stack[i].dir # targetDir => ~HasHiddenComponent(PathRelative(targetDir, stack[i].dir))

\* C3 witness: a run with an empty pattern list over a tree with a
\* non-empty hidden directory and the ignore file has produced both outputs
C3_Witness ==
  /\ pc = "done"
  /\ gitignore.exists
  /\ ignorePatterns = <<>>
  /\ HasHiddenDirectory(fs)
  /\ allFiles # <<>>
  /\ treeStructure # <<>>

\* ------------------------------------------------------------------------
\* Ignore-matched entries

\* the tree holds a non-hidden directory with something in it that the
\* patterns match
HasIgnoredDirectory(forest, patterns) ==
  \E i \in 1..Len(forest) :
    /\ forest[i].isDir
    /\ forest[i].children # <<>>
    /\ forest[i].name[1] # "."
    /\ SpecMatches(forest[i].name, patterns)

\* C4: no directory read and no metadata query is issued for an entry whose
\* root-relative path the patterns match, nor for anything below it, and no
\* path at or below it is listed or rendered.
C4_IgnoredSubtreeNeverVisited ==
  /\ \A i \in WalkOps :
       ops[i].path # targetDir => ~IgnoredOrBelowIgnored(RelOf(ops[i]), ignorePatterns)
  /\ \A p \in SeqRange(allFiles) : ~IgnoredOrBelowIgnored(p, ignorePatterns)
  /\ \A p \in LinePaths(treeStructure) : ~IgnoredOrBelowIgnored(p, ignorePatterns)

\* C4 witness: both traversals are over, the tree has a non-empty directory
\* the patterns match, and something else was listed
C4_Witness ==
  /\ pc = "done"
  /\ HasIgnoredDirectory(fs, ignorePatterns)
  /\ allFiles # <<>>

\* ------------------------------------------------------------------------
\* The rendering

\* C5: the rendering is, for every surviving entry in directory-read order,
\* one line of `depth` times two spaces, "- ", the base name and a line
\* break, a directory's line right before the lines of its surviving
\* descendants one level deeper and before the line of any later sibling.
C5_TreeRendering ==
  PostTree => treeStructure = RefTree(fs, <<>>, 0, ignorePatterns)

\* C5 witness: a rendering with a directory's line, the line of an entry
\* in it, and the line of a later sibling of the directory
C5_Witness ==
  /\ PostTree
  /\ LET pl == ParsedLines(treeStructure)
     IN  /\ Len(pl) = 3
         /\ pl[1].depth = 0
         /\ pl[2].depth = 1
         /\ pl[3].depth = 0

\* ------------------------------------------------------------------------
\* The listing

\* C9: listFiles issues at most one directory read and one metadata query
\* per entry and returns exactly the surviving files, each once, depth
\* first in directory-read order.
C9_ListFilesResult ==
  /\ \A i, j \in 1..Len(ops) : (ops[i] = ops[j] /\ ops[i].fn = "listFiles") => i = j
  /\ PostList =>
       /\ allFiles = RefListing(fs, <<>>, ignorePatterns)
       /\ \A i, j \in 1..Len(allFiles) : allFiles[i] = allFiles[j] => i = j
       /\ \A i \in 1..Len(allFiles) : ~statIsDirectory(fs, PathJoin(targetDir, allFiles[i]))

\* C9 witness: the listing holds a file of a subdirectory and then a file
\* of the root
C9_Witness ==
  /\ PostList
  /\ Len(allFiles) = 2
  /\ Len(Pieces(allFiles[1], "/")) = 2
  /\ Len(Pieces(allFiles[2], "/")) = 1

\* ------------------------------------------------------------------------
\* Failures

FindHeader == <<"## Find Output\n">>
TreeHeader == <<"\n## Directory Tree\n">>
SourceHeader == <<"\n## Source Code\n">>

\* what a run without failure has appended once the listing is out, and
\* once the tree is out
ListingSection == FindHeader \o ListingText(RefListing(fs, <<>>, ignorePatterns))
TreeSection == TreeHeader \o RefTree(fs, <<>>, 0, ignorePatterns)

\* C6: a directory read, metadata query or file read that fails ends the
\* run: the error reaches main().catch as it was raised, every suspended
\* call is gone, nothing further is issued, the failed operation is not
\* issued again, and the failed traversal hands nothing back: a failed
\* listing leaves no listing in the output, a failed rendering leaves no
\* tree line in it, and a listing or tree that is in the output is whole.
C6_ReadFailureIsFatal ==
  /\ pc = "exit1" <=> failures # <<>>
  /\ failures # <<>> =>
       /\ Len(failures) = 1
       /\ exitErr = failures
       /\ stack = <<>>
       /\ inflight = {}
       /\ ops[Len(ops)] = failures[1]
       /\ \A i \in 1..(Len(ops) - 1) : ops[i] # failures[1]
       /\ failures[1].fn = "listFiles" =>
            allFiles = <<>> /\ treeStructure = <<>> /\ out = FindHeader
       /\ failures[1].fn = "generateTree" =>
            treeStructure = <<>> /\ out = ListingSection \o TreeHeader
       /\ failures[1].fn = "main" =>
            StartsWith(out, ListingSection \o TreeSection \o SourceHeader)

\* C6 witness: a metadata query of the rendering failed after a listing
\* with a file in it had been written
C6_Witness ==
  /\ pc = "exit1"
  /\ failures # <<>>
  /\ failures[1].fn = "generateTree"
  /\ failures[1].op = "stat"
  /\ allFiles # <<>>

\* ------------------------------------------------------------------------
\* Sequencing

FnRank(fn) == IF fn = "listFiles" THEN 1 ELSE IF fn = "generateTree" THEN 2 ELSE 3

CommonPrefixLen(a, b) ==
  CHOOSE n \in 0..Len(a) :
    /\ n <= Len(b)
    /\ SubSeq(a, 1, n) = SubSeq(b, 1, n)
    /\ n = Len(a) \/ n = Len(b) \/ a[n + 1] # b[n + 1]

IndexIn(list, name) == CHOOSE i \in 1..Len(list) : list[i] = name

\* operation o1 may precede o2 within one traversal: o1 is on the same
\* entry or on a directory above that of o2, or o1 is at or below an
\* earlier sibling than the one o2 is at or below
MayPrecede(o1, o2) ==
  LET c1 == Pieces(RelOf(o1), "/")
      c2 == Pieces(RelOf(o2), "/")
      m == CommonPrefixLen(c1, c2)
  IN  IF m = Len(c1) THEN (m = Len(c2) => o1.op = "stat" /\ o2.op = "readdir")
      ELSE IF m = Len(c2) THEN FALSE
      ELSE LET parent == IF m = 0 THEN targetDir
                         ELSE PathJoin(targetDir, JoinPieces(SubSeq(c1, 1, m), "/"))
               list == readdir(fs, gitignore, parent)
           IN  IndexIn(list, c1[m + 1]) < IndexIn(list, c2[m + 1])

\* C8: at most one filesystem operation is in flight, the one issued last;
\* within a traversal every operation at or below one entry of a directory
\* is issued before any operation at or below a later entry of it; every
\* operation of the listing is issued before any of the rendering, which
\* starts only once the listing has been returned.
C8_StrictlySequential ==
  /\ Cardinality(inflight) <= 1
  /\ inflight \subseteq {ops[i] : i \in {Len(ops)} \ {0}}
  /\ \A i, j \in 1..Len(ops) :
       i < j =>
         /\ FnRank(ops[i].fn) <= FnRank(ops[j].fn)
         /\ (ops[i].fn = ops[j].fn /\ ops[i].fn # "main") => MayPrecede(ops[i], ops[j])
  /\ (\E i \in 1..Len(ops) : ops[i].fn = "generateTree") =>
       /\ pc \notin {"start", "findHeader", "listFiles"}
       /\ \A i \in 1..Len(stack) : stack[i].fn # "listFiles"

\* C8 witness: the rendering is reading a subdirectory while a later
\* sibling waits, after the listing read below that same subdirectory
C8_Witness ==
  /\ pc = "generateTree"
  /\ Len(stack) = 2
  /\ stack[1].i < Len(stack[1].list)
  /\ stack[1].list[stack[1].i + 1][1] # "."
  /\ \E o \in inflight : o.op = "stat"
  /\ \E i \in 1..Len(ops) : ops[i].fn = "listFiles" /\ Len(Pieces(RelOf(ops[i]), "/")) = 2

====
